---- MODULE Spec2Model ----
(***************************************************************************)
(* A model of the blockchain/UTXO engine of WR104/bitcoin (Rust).          *)
(*                                                                         *)
(* Byte strings (Vec<u8>, &[u8]) are sequences of integers 0..255 and keep *)
(* the lengths the code gives them, so that slicing and comparing them is  *)
(* computed as the code computes it.  SHA-256 of a serialized transaction  *)
(* is the tagged value <<"sha256", preimage>> (an injective digest), an    *)
(* ECDSA signature is <<"der", signer, message>>.  The SHA-256 of a        *)
(* proof-of-work preimage is a 32-byte digest read from the table `sha`,   *)
(* which fixes the digest of every preimage hashed so far.                 *)
(***************************************************************************)
EXTENDS Integers, Sequences, FiniteSets, TLC

VARIABLES
    db,     \* BlockchainDb.database: i32 key -> stored value
    tip,    \* Blockchain.tip of the Blockchain object in use
    sha     \* SHA-256 digests of the proof-of-work preimages hashed so far

vars == <<db, tip, sha>>

----------------------------------------------------------------------------
(* Bounds of the model *)

NumWallets == 2       \* wallets (key pair and address) that exist
MaxBlocks == 2        \* blocks ever built by Block::new
MaxNonce == 2         \* stands for MAT_NONCE: run tries nonces 0..MaxNonce-1
MaxTime == 1          \* time stamps 1..MaxTime
MaxBytes == 5         \* longest byte sequence handed to base58::encode alone

(* Program constants *)

TARGET_BITS == 16
SUBSIDY == 10
VERSION == 0
CHECKSUM_LENGTH == 4
HashLen == 32         \* bytes of a SHA-256 digest
PubKeyHashLen == 20   \* bytes of a RIPEMD-160 digest

Wallets == 1..NumWallets
Nonces == 0..(MaxNonce - 1)
Times == 1..MaxTime
Amounts == {-1, 0, 4}

----------------------------------------------------------------------------
(* Byte strings *)

Fill(n, b) == [i \in 1..n |-> b]

\* Rust s[a..b]: the bytes at 0-based indices a..b-1
Slice(s, a, b) == SubSeq(s, a + 1, b)

Min(a, b) == IF a < b THEN a ELSE b

\* Body applied to the value of e, e being evaluated once
With(e, Body(_)) == CHOOSE r \in {Body(v) : v \in {e}} : TRUE

None == [none |-> TRUE]
Some(v) == [some |-> v]
IsSome(o) == DOMAIN o = {"some"}

----------------------------------------------------------------------------
(* Keys, signatures, addresses *)

\* a secp256k1 secret key of wallet w (32 bytes)
PrivateKey(w) == Fill(32, w)

\* utils::get_public_key: the 33-byte compressed public key of a secret key
get_public_key(private_key) == <<2>> \o private_key

\* SecretKey::from_slice succeeds on the secret keys that exist
IsSecretKey(b) == \E w \in Wallets : b = PrivateKey(w)

\* PublicKey::from_slice succeeds on a 33-byte encoding of a public key
IsPublicKey(b) == \E w \in Wallets : b = get_public_key(PrivateKey(w))

\* utils::hash_public_key: RIPEMD-160(SHA-256(bytes)), 20 bytes.  The
\* digest of a public key is its wallet's hash; the digest of anything
\* else is a 20-byte string that is no wallet's hash.
hash_public_key(b) ==
    IF IsPublicKey(b) THEN Fill(PubKeyHashLen, 100 + b[2])
    ELSE IF b = <<>> THEN Fill(PubKeyHashLen, 255)
    ELSE Fill(PubKeyHashLen, 128 + ((b[1] + b[Len(b)] + Len(b)) % 120))

\* utils::sign: the DER signature of data under private_key
utils_sign(private_key, data) == <<"der", private_key, data>>

\* Signature::from_der
IsDerSignature(s) == Len(s) = 3 /\ s[1] = "der"

\* secp.verify(message, signature, public_key)
secp_verify(message, signature, public_key) ==
    /\ get_public_key(signature[2]) = public_key
    /\ signature[3] = message

\* wallet::checksum: first 4 bytes of SHA-256(SHA-256(payload))
checksum(payload) ==
    [i \in 1..CHECKSUM_LENGTH |-> (payload[2] + 7 * i + Len(payload)) % 256]

\* wallet::calc_address before base58: version, pubKeyHash, checksum
calc_payload(pub_key_hash) ==
    LET playload == <<VERSION>> \o pub_key_hash
    IN  playload \o checksum(playload)

\* Wallet::address: the address string of wallet w.  An address string is
\* named by the wallet it belongs to; the empty string is <<>>.
Address(w) == <<w>>
EmptyAddress == <<>>
Addresses == {Address(w) : w \in Wallets}

\* an address string with one character mistyped: it decodes to a payload
\* whose last checksum byte is off by one
BadAddress == <<0>>

\* base58 decoding of an address string: the 25-byte payload
base58_decode(address) ==
    IF address = BadAddress
    THEN [calc_payload(Fill(PubKeyHashLen, 0)) EXCEPT
             ![1 + PubKeyHashLen + CHECKSUM_LENGTH] = (@ + 1) % 256]
    ELSE calc_payload(hash_public_key(get_public_key(PrivateKey(address[1]))))

\* utils::string_hex on an address string: hex::decode fails on a base58
\* address (34 characters of the base58 alphabet), the result is empty
string_hex_address(address) == <<>>

----------------------------------------------------------------------------
(* Base58 *)

\* B58_ALPHABET.len(); a character of a base58 string is written as its
\* index in the alphabet, '1' being 0
B58_ALPHABET_LEN == 58

\* the number of leading elements of s equal to v
RECURSIVE LeadingCount(_, _)
LeadingCount(s, v) ==
    IF s = <<>> \/ Head(s) # v THEN 0 ELSE 1 + LeadingCount(Tail(s), v)

\* a BigInt keeps no leading zero digit; zero has no digit at all
Normal(digits) == SubSeq(digits, LeadingCount(digits, 0) + 1, Len(digits))

\* x.div_rem(d) on a number written as big-endian digits of the radix:
\* <<the quotient, as many digits, the remainder>>
RECURSIVE div_rem(_, _, _, _, _)
div_rem(digits, radix, d, i, acc) ==
    IF i > Len(digits) THEN acc
    ELSE With(acc[2] * radix + digits[i],
              LAMBDA cur : div_rem(digits, radix, d, i + 1,
                                   <<Append(acc[1], cur \div d), cur % d>>))

\* the loop of encode: while x > 0 the remainders of x by 58, pushed
\* least significant first and reversed at the end
RECURSIVE encode_digits(_)
encode_digits(x) ==
    IF x = <<>> THEN <<>>
    ELSE With(div_rem(x, 256, B58_ALPHABET_LEN, 1, <<(<<>>), 0>>),
              LAMBDA qr : Append(encode_digits(Normal(qr[1])), qr[2]))

\* an encoding that writes the number only, without a '1' per leading
\* zero byte
encode_number(input) == encode_digits(Normal(input))

\* base58::encode
encode(input) ==
    Fill(LeadingCount(input, 0), 0) \o encode_digits(Normal(input))

\* result * m + a on a number written as big-endian bytes, one byte longer
RECURSIVE mul_add(_, _, _, _)
mul_add(bytes, m, a, i) ==
    IF i = 0 THEN <<a>>
    ELSE With(mul_add(bytes, m, a, i - 1),
              LAMBDA low :
                 With(bytes[Len(bytes) - i + 1] * m + low[1],
                      LAMBDA cur : <<cur \div 256, cur % 256>> \o Tail(low)))

\* BigInt::to_bytes_be: no leading zero byte, and one zero byte for zero
to_bytes_be(bytes) == IF bytes = <<>> THEN <<0>> ELSE bytes

\* the loop of decode over the characters after the leading '1's:
\* result = result * 58 + index, from the first character to the last
RECURSIVE decode_digits(_)
decode_digits(payload) ==
    IF payload = <<>> THEN <<>>
    ELSE With(decode_digits(SubSeq(payload, 1, Len(payload) - 1)),
              LAMBDA result :
                 Normal(mul_add(result, B58_ALPHABET_LEN, payload[Len(payload)],
                                Len(result))))

\* base58::decode
decode(input) ==
    With(LeadingCount(input, 0),
         LAMBDA zero_bytes :
            Fill(zero_bytes, 0)
               \o to_bytes_be(decode_digits(SubSeq(input, zero_bytes + 1, Len(input)))))

\* bs58::decode(..).into_vec() of the bs58 crate: one zero byte per leading
\* '1', then the bytes of the number the other characters write, none for
\* zero
bs58_decode(input) ==
    With(LeadingCount(input, 0),
         LAMBDA zero_bytes :
            Fill(zero_bytes, 0)
               \o decode_digits(SubSeq(input, zero_bytes + 1, Len(input))))

\* wallet::calc_address: the address string of a public key hash
calc_address(pub_hash_key) == encode(calc_payload(pub_hash_key))

\* Wallet::address of wallet w, character by character
Wallet_address(w) ==
    calc_address(hash_public_key(get_public_key(PrivateKey(w))))

\* utils::validate_address on the characters of an address
utils_validate_address(address) ==
    With(bs58_decode(address),
         LAMBDA decoded :
            /\ Len(decoded) > 4
            /\ Slice(decoded, Len(decoded) - 4, Len(decoded))
                  = checksum(Slice(decoded, 0, Len(decoded) - 4)))

\* wallet::validate_address on the characters of an address; slicing
\* a payload shorter than the checksum panics
wallet_validate_address(address) ==
    With(decode(address),
         LAMBDA payload :
            IF Len(payload) < CHECKSUM_LENGTH THEN "panic"
            ELSE Slice(payload, Len(payload) - CHECKSUM_LENGTH, Len(payload))
                    = checksum(<<payload[1]>>
                                  \o Slice(payload, 1, Len(payload) - CHECKSUM_LENGTH)))

----------------------------------------------------------------------------
(* Transactions *)

Sha256(x) == <<"sha256", x>>

TXInput(txid, vout, signature, pub_key) ==
    [txid |-> txid, vout |-> vout, signature |-> signature, pub_key |-> pub_key]

\* TXInput::uses_key
uses_key(txin, pub_key_hash) == hash_public_key(txin.pub_key) = pub_key_hash

\* TXOutput::lock
lock(address) == Slice(base58_decode(address), 1, 20)

\* TXOutput::new
TXOutput(value, address) == [value |-> value, pub_key_hash |-> lock(address)]

\* TXOutput::is_locked_with_key
is_locked_with_key(txout, pub_key_hash) == txout.pub_key_hash = pub_key_hash

\* Transaction::hash: SHA-256 of the serialization with id cleared
hash(tx) == Sha256([id |-> <<>>, vin |-> tx.vin, vout |-> tx.vout])

\* Transaction::is_coinbase
is_coinbase(tx) ==
    /\ Len(tx.vin) = 1
    /\ tx.vin[1].txid = <<>>
    /\ tx.vin[1].vout = -1

\* Transaction::trimmed_copy
trimmed_copy(tx) ==
    [id |-> tx.id,
     vin |-> [i \in 1..Len(tx.vin) |->
                 TXInput(tx.vin[i].txid, tx.vin[i].vout, <<>>, <<>>)],
     vout |-> tx.vout]

\* the data the genesis coinbase carries in its input's signature field
GenesisData == <<"data", <<>>, <<>>>>

\* Transaction::new_coinbase_tx (set_id hashes the serialization while id is empty)
new_coinbase_tx(to) ==
    LET tx == [id |-> <<>>,
               vin |-> <<TXInput(<<>>, -1, GenesisData, <<>>)>>,
               vout |-> <<TXOutput(SUBSIDY, to)>>]
    IN  [tx EXCEPT !.id = Sha256(tx)]

----------------------------------------------------------------------------
(* The store *)

\* bcdb::from_u8: the i32 read little-endian from a 4-byte buffer that
\* holds the last min(len, 4) bytes of the key at its end
from_u8(key) ==
    LET key_end == Min(Len(key), 4)
        buffer_start == 4 - key_end
        buffer == [i \in 1..4 |->
                     IF i > buffer_start
                     THEN key[Len(key) - key_end + (i - buffer_start)]
                     ELSE 0]
        top == IF buffer[4] >= 128 THEN buffer[4] - 256 ELSE buffer[4]
    IN  buffer[1] + 256 * buffer[2] + 65536 * buffer[3] + 16777216 * top

\* the key of the tip pointer, b"1"
TipKey == <<49>>

EmptyDb == [k \in {} |-> None]

\* BlockchainDb::write
write(d, key, val) ==
    With(from_u8(key),
         LAMBDA k : [j \in DOMAIN d \cup {k} |-> IF j = k THEN val ELSE d[j]])

\* BlockchainDb::read
read(d, key) ==
    With(from_u8(key), LAMBDA k : IF k \in DOMAIN d THEN Some(d[k]) ELSE None)

\* Block::serialize (bincode of the five fields, in order)
serialize(block) ==
    [bincode |-> <<block.time_stamp, block.transaction, block.prev_block_hash,
                   block.hash, block.nonce>>]

\* the stored form of a raw byte string (the tip pointer's value)
Raw(bytes) == [raw |-> bytes]

IsBlockBytes(val) == DOMAIN val = {"bincode"}

\* n as `width` little-endian bytes
RECURSIVE LittleEndian(_, _)
LittleEndian(n, width) ==
    IF width = 0 THEN <<>>
    ELSE <<n % 256>> \o LittleEndian(n \div 256, width - 1)

\* the bytes read back from the store.  For a serialized block: bincode's
\* layout of the fields in order, the u32 nonce last; the bytes of the
\* transactions are left out (a reader of raw bytes takes the last four
\* of them, or compares them)
Bytes(val) ==
    IF IsBlockBytes(val)
    THEN LittleEndian(val.bincode[1], 8) \o LittleEndian(Len(val.bincode[2]), 8)
         \o LittleEndian(Len(val.bincode[3]), 8) \o val.bincode[3]
         \o LittleEndian(Len(val.bincode[4]), 8) \o val.bincode[4]
         \o LittleEndian(val.bincode[5], 4)
    ELSE val.raw

\* a deserializer that reads hash and prev_block_hash in the other order
deserialize_swapped(val) ==
    [time_stamp |-> val.bincode[1], transaction |-> val.bincode[2],
     prev_block_hash |-> val.bincode[4], hash |-> val.bincode[3],
     nonce |-> val.bincode[5]]

\* Block::deserialize
deserialize(val) ==
    [time_stamp |-> val.bincode[1], transaction |-> val.bincode[2],
     prev_block_hash |-> val.bincode[3], hash |-> val.bincode[4],
     nonce |-> val.bincode[5]]

\* the blocks the store holds
StoredBlocks(d) == {deserialize(d[k]) : k \in {j \in DOMAIN d : IsBlockBytes(d[j])}}

----------------------------------------------------------------------------
(* Proof of work *)

\* a 32-byte digest: 16 leading bits, 26 zero bytes, the last 4 bytes
Digest(lead, tail) == <<0, lead>> \o Fill(HashLen - 6, 0) \o <<tail, 0, 0, 0>>

\* a digest that is not below the target: the target itself
BadDigest == Digest(1, 0)

\* ProofOfWork::new: target = 1 << (256 - TARGET_BITS), as 32 big-endian bytes
Target ==
    [i \in 1..HashLen |->
        IF i = HashLen - ((8 * HashLen - TARGET_BITS) \div 8)
        THEN 2 ^ ((8 * HashLen - TARGET_BITS) % 8) ELSE 0]

\* a < b for BigUint::from_bytes_be of two 32-byte strings
RECURSIVE LessBE(_, _, _)
LessBE(a, b, i) ==
    IF i > Len(a) THEN FALSE
    ELSE IF a[i] # b[i] THEN a[i] < b[i]
    ELSE LessBE(a, b, i + 1)

\* hash_int < self.target
BelowTarget(digest) == LessBE(digest, Target, 1)

\* Block::hash_transaction: SHA-256 of the concatenated transaction ids
hash_transaction(block) ==
    Sha256([i \in 1..Len(block.transaction) |-> block.transaction[i].id])

\* ProofOfWork::prepare_data
prepare_data(block, nonce) ==
    <<block.time_stamp, hash_transaction(block), block.prev_block_hash,
      TARGET_BITS, nonce>>

\* ProofOfWork::run over the digest table s: the first nonce of
\* 0..MaxNonce-1 whose digest is below the target, else (0, empty)
RECURSIVE run_from(_, _, _)
run_from(s, block, nonce) ==
    IF nonce >= MaxNonce THEN <<0, <<>>>>
    ELSE With(s[prepare_data(block, nonce)],
              LAMBDA digest : IF BelowTarget(digest) THEN <<nonce, digest>>
                              ELSE run_from(s, block, nonce + 1))

run(s, block) == run_from(s, block, 0)

\* ProofOfWork::validate
validate(s, block) ==
    With(prepare_data(block, block.nonce),
         LAMBDA data : data \in DOMAIN s /\ BelowTarget(s[data]))

\* a block with its proof of work still to be found
Unmined(transaction, prev_block_hash, time_stamp) ==
    [time_stamp |-> time_stamp, transaction |-> transaction,
     prev_block_hash |-> prev_block_hash, hash |-> <<>>, nonce |-> 0]

\* Block::new
Block_new(s, transaction, prev_block_hash, time_stamp) ==
    With(run(s, Unmined(transaction, prev_block_hash, time_stamp)),
         LAMBDA pow : [time_stamp |-> time_stamp, transaction |-> transaction,
                       prev_block_hash |-> prev_block_hash,
                       hash |-> pow[2], nonce |-> pow[1]])

\* SHA-256 is collision-free: a preimage not hashed before gets a digest
\* no other preimage has.  The digests below the target are handed out in
\* the order Digest(0, 1), Digest(0, 2), ...
NextGood(s) == Digest(0, Cardinality({p \in DOMAIN s : BelowTarget(s[p])}) + 1)

\* the last four bytes of a digest
KeyBytes(digest) == Slice(digest, HashLen - 4, HashLen)

\* last four bytes a new digest may share with a key written before: the
\* bytes from_u8 maps to the key of "1", four zero bytes (the key of the
\* empty hash), and those of the digests below the target handed out
KeyTails(s) ==
    {<<0, 0, 0, 49>>, <<0, 0, 0, 0>>}
        \cup {KeyBytes(s[p]) : p \in {q \in DOMAIN s : BelowTarget(s[q])}}

\* digests below the target, different from every digest handed out, with
\* the last four bytes of a key written before
Colliding(s) ==
    {<<0, 0, Cardinality({p \in DOMAIN s : BelowTarget(s[p])}) + 1>>
        \o Fill(HashLen - 7, 0) \o tail : tail \in KeyTails(s)}

\* the digests below the target a preimage not hashed before may get
GoodDigests(s) == {NextGood(s)} \cup Colliding(s)

\* The digests of the preimages run hashes for a new block: `first` is the
\* first nonce whose digest is below the target, `good` that digest; the
\* nonces before it get a digest that is not below the target;
\* first = MaxNonce leaves no nonce below the target.  A preimage hashed
\* before keeps its digest.
Extend(s, transaction, prev_block_hash, time_stamp, first, good) ==
    With({prepare_data(Unmined(transaction, prev_block_hash, time_stamp), n) :
             n \in {m \in Nonces : m <= first}},
         LAMBDA e : [p \in DOMAIN s \cup e |->
                        IF p \in DOMAIN s THEN s[p]
                        ELSE IF p[5] = first THEN good ELSE BadDigest])

\* the block data hashed so far (one per Block::new with new data)
Mined(s) == {<<p[1], p[2], p[3]>> : p \in DOMAIN s}

----------------------------------------------------------------------------
(* Walking the chain *)

\* more calls of next() than the store has entries revisit a block
Fuel(d) == Cardinality(DOMAIN d) + 1

\* BlockchainIterator::next, called until it returns None: the blocks
\* returned, in order (at most `fuel` of them)
RECURSIVE Iterate(_, _, _)
Iterate(d, prev_block_hash, fuel) ==
    IF fuel = 0 THEN <<>>
    ELSE With(read(d, prev_block_hash),
              LAMBDA r :
                 IF ~IsSome(r) THEN <<>>
                 ELSE IF ~IsBlockBytes(r.some) THEN <<>>
                 ELSE With(deserialize(r.some),
                           LAMBDA block :
                              <<block>>
                                 \o Iterate(d, block.prev_block_hash, fuel - 1)))

\* how a loop over next() ends: "done" when next() returns None, "panic"
\* when a stored value does not deserialize, "hang" when the walk comes
\* back to a block it has returned
RECURSIVE WalkEnd(_, _, _)
WalkEnd(d, prev_block_hash, fuel) ==
    With(read(d, prev_block_hash),
         LAMBDA r :
            IF ~IsSome(r) THEN "done"
            ELSE IF ~IsBlockBytes(r.some) THEN "panic"
            ELSE IF fuel = 0 THEN "hang"
            ELSE WalkEnd(d, deserialize(r.some).prev_block_hash, fuel - 1))

Blocks(d, t) == Iterate(d, t, Fuel(d))
Walk(d, t) == WalkEnd(d, t, Fuel(d))

RECURSIVE Concat(_)
Concat(ss) == IF ss = <<>> THEN <<>> ELSE Head(ss) \o Concat(Tail(ss))

\* the transactions of the given blocks, in block order
TxsOf(blocks) == Concat([i \in 1..Len(blocks) |-> blocks[i].transaction])

\* the transactions of the chain in the order the scans meet them:
\* blocks from the tip backwards, transactions in block order
ChainTxs(d, t) == With(Blocks(d, t), LAMBDA blocks : TxsOf(blocks))

\* v is an element of the sequence s
InSeq(v, s) == \E i \in 1..Len(s) : s[i] = v

\* the indices 0..n-1 that satisfy Test, in order
SelectIdx(n, Test(_)) == SelectSeq([i \in 1..n |-> i - 1], Test)

----------------------------------------------------------------------------
(* The UTXO scans *)

\* find_unspent_transactions, the loop over the outputs of one transaction:
\* the indices that are not in spent_txos and are locked with the key
UnspentIdx(tx, spent_txos, pub_key_hash) ==
    SelectIdx(Len(tx.vout),
              LAMBDA idx : /\ ~InSeq(<<tx.id, idx>>, spent_txos)
                           /\ is_locked_with_key(tx.vout[idx + 1], pub_key_hash))

\* the (txid, vout) pairs the inputs of tx add to spent_txos
SpentBy(tx, pub_key_hash) ==
    IF is_coinbase(tx) THEN <<>>
    ELSE With(SelectIdx(Len(tx.vin),
                        LAMBDA i : uses_key(tx.vin[i + 1], pub_key_hash)),
              LAMBDA idxs : [j \in 1..Len(idxs) |->
                               <<tx.vin[idxs[j] + 1].txid, tx.vin[idxs[j] + 1].vout>>])

\* the loop of find_unspent_transactions over the transactions txs[i..]:
\* tx is pushed once for every index of UnspentIdx
RECURSIVE unspent_scan(_, _, _, _, _)
unspent_scan(txs, i, spent_txos, unspent_txs, pub_key_hash) ==
    IF i > Len(txs) THEN unspent_txs
    ELSE With(<<spent_txos \o SpentBy(txs[i], pub_key_hash),
                unspent_txs
                   \o [k \in 1..Len(UnspentIdx(txs[i], spent_txos, pub_key_hash))
                          |-> txs[i]]>>,
              LAMBDA st : unspent_scan(txs, i + 1, st[1], st[2], pub_key_hash))

\* Blockchain::find_unspent_transactions on the transactions of the chain
unspent_transactions(txs, pub_key_hash) ==
    unspent_scan(txs, 1, <<>>, <<>>, pub_key_hash)

find_unspent_transactions(d, t, pub_key_hash) ==
    unspent_transactions(ChainTxs(d, t), pub_key_hash)

\* the indices of the outputs of tx locked with the key, in order
LockedIdx(tx, pub_key_hash) ==
    SelectIdx(Len(tx.vout),
              LAMBDA idx : is_locked_with_key(tx.vout[idx + 1], pub_key_hash))

\* the outputs of tx locked with the key, in order
LockedOutputs(tx, pub_key_hash) ==
    With(LockedIdx(tx, pub_key_hash),
         LAMBDA idxs : [j \in 1..Len(idxs) |-> tx.vout[idxs[j] + 1]])

\* Blockchain::find_utxo on the transactions of the chain
utxo(txs, pub_key_hash) ==
    With(unspent_transactions(txs, pub_key_hash),
         LAMBDA unspent_txs :
            Concat([i \in 1..Len(unspent_txs) |->
                       LockedOutputs(unspent_txs[i], pub_key_hash)]))

find_utxo(d, t, pub_key_hash) == utxo(ChainTxs(d, t), pub_key_hash)

Values(outs) == [i \in 1..Len(outs) |-> outs[i].value]

RECURSIVE Sum(_)
Sum(s) == IF s = <<>> THEN 0 ELSE Head(s) + Sum(Tail(s))

\* Blockchain::find_spendable_outputs, the two loops: cands are the
\* (txid, idx, value) of the locked outputs of the unspent transactions in
\* the order the loops meet them; the loops stop after the output that
\* brings accumulated to amount or above
RECURSIVE spend_scan(_, _, _, _, _)
spend_scan(cands, i, accumulated, taken, amount) ==
    IF i > Len(cands) THEN [accumulated |-> accumulated, unspent_outputs |-> taken]
    ELSE With(<<accumulated + cands[i][3],
                Append(taken, <<cands[i][1], cands[i][2]>>)>>,
              LAMBDA n : IF n[1] >= amount
                         THEN [accumulated |-> n[1], unspent_outputs |-> n[2]]
                         ELSE spend_scan(cands, i + 1, n[1], n[2], amount))

LockedCands(tx, pub_key_hash) ==
    With(LockedIdx(tx, pub_key_hash),
         LAMBDA idxs : [j \in 1..Len(idxs) |->
                          <<tx.id, idxs[j], tx.vout[idxs[j] + 1].value>>])

\* find_spendable_outputs on the transactions of the chain: accumulated,
\* and unspent_outputs as the (txid, idx) pairs in the order they were pushed
spendable_outputs(txs, pub_key_hash, amount) ==
    With(unspent_transactions(txs, pub_key_hash),
         LAMBDA unspent_transaction :
            spend_scan(Concat([i \in 1..Len(unspent_transaction) |->
                                  LockedCands(unspent_transaction[i], pub_key_hash)]),
                       1, 0, <<>>, amount))

find_spendable_outputs(d, t, pub_key_hash, amount) ==
    spendable_outputs(ChainTxs(d, t), pub_key_hash, amount)

\* the first transaction of txs with the id, as an Option
first_with_id(txs, txid) ==
    With(SelectIdx(Len(txs), LAMBDA i : txs[i + 1].id = txid),
         LAMBDA idxs : IF idxs = <<>> THEN None ELSE Some(txs[idxs[1] + 1]))

\* Blockchain::find_transaction
find_transaction(d, t, txid) == first_with_id(ChainTxs(d, t), txid)

----------------------------------------------------------------------------
(* Signing and verifying *)

\* prev_txs.get(txid) on the map (id -> transaction) built from prev_txs
PrevGet(prev_txs, txid) == first_with_id(prev_txs, txid)

\* some input of tx has no entry in prev_txs
Missing(prev_txs, tx) ==
    \E i \in 1..Len(tx.vin) : ~IsSome(PrevGet(prev_txs, tx.vin[i].txid))

\* prev_tx_copy.vout[vin.vout as usize] is inside the vector
InRange(prev_tx, vout) == vout >= 0 /\ vout < Len(prev_tx.vout)

\* sign and verify: the id of the trimmed copy of the previous transaction
\* with the value of the referenced output set to 0
Message(prev_tx, vout) ==
    hash([trimmed_copy(prev_tx) EXCEPT !.vout[vout + 1].value = 0])

\* Transaction::sign, the assignments to one input
SignInput(vin, private_key, prev_txs) ==
    TXInput(vin.txid, vin.vout,
            utils_sign(private_key,
                       Message(PrevGet(prev_txs, vin.txid).some, vin.vout)),
            hash_public_key(get_public_key(private_key)))

\* Transaction::sign.  status: "ok", "exit" (process::exit on a missing
\* previous transaction) or "panic" (index out of range, bad secret key)
Transaction_sign(tx, private_key, prev_txs) ==
    IF is_coinbase(tx) THEN [status |-> "ok", tx |-> tx]
    ELSE IF Missing(prev_txs, tx) THEN [status |-> "exit", tx |-> tx]
    ELSE IF \E i \in 1..Len(tx.vin) :
               \/ ~InRange(PrevGet(prev_txs, tx.vin[i].txid).some, tx.vin[i].vout)
               \/ ~IsSecretKey(private_key)
    THEN [status |-> "panic", tx |-> tx]
    ELSE [status |-> "ok",
          tx |-> [tx EXCEPT !.vin = [i \in 1..Len(tx.vin) |->
                                        SignInput(tx.vin[i], private_key, prev_txs)]]]

\* Transaction::verify, the checks on one input
VerifyInput(vin, prev_tx) ==
    IF ~InRange(prev_tx, vin.vout) THEN "panic"
    ELSE IF ~IsPublicKey(vin.pub_key) THEN "err"
    ELSE IF ~IsDerSignature(vin.signature) THEN "err"
    ELSE IF ~secp_verify(Message(prev_tx, vin.vout), vin.signature, vin.pub_key)
    THEN "err"
    ELSE "true"

\* the loop of Transaction::verify over the inputs tx.vin[i..]
RECURSIVE verify_from(_, _, _)
verify_from(tx, prev_txs, i) ==
    IF i > Len(tx.vin) THEN "true"
    ELSE With(VerifyInput(tx.vin[i], PrevGet(prev_txs, tx.vin[i].txid).some),
              LAMBDA v : IF v # "true" THEN v ELSE verify_from(tx, prev_txs, i + 1))

\* Transaction::verify: "true" for Ok(true), "err" for Err(..), "panic"
Transaction_verify(tx, prev_txs) ==
    IF is_coinbase(tx) THEN "true"
    ELSE IF Missing(prev_txs, tx) THEN "err"
    ELSE verify_from(tx, prev_txs, 1)

\* the previous transactions of tx that find_transaction finds among txs
Resolve(txs, tx) ==
    With(SelectIdx(Len(tx.vin),
                   LAMBDA i : IsSome(first_with_id(txs, tx.vin[i + 1].txid))),
         LAMBDA idxs : [j \in 1..Len(idxs) |->
                          first_with_id(txs, tx.vin[idxs[j] + 1].txid).some])

\* Blockchain::sign_transaction: every previous transaction is looked up
\* with find_transaction, a missing one is fatal; then Transaction::sign.
\* A lookup that finds nothing on a walk that does not end does not return.
sign_transaction(d, t, tx, private_key) ==
    With(ChainTxs(d, t),
         LAMBDA txs :
            IF Missing(txs, tx)
            THEN [status |-> IF Walk(d, t) = "done" THEN "exit" ELSE Walk(d, t),
                  tx |-> tx]
            ELSE Transaction_sign(tx, private_key, Resolve(txs, tx)))

\* Blockchain::verify_transaction: true for a coinbase; else every previous
\* transaction is looked up, a missing one fails; then Transaction::verify
verify_transaction(d, t, tx) ==
    IF is_coinbase(tx) THEN "true"
    ELSE With(ChainTxs(d, t),
              LAMBDA txs :
                 IF Missing(txs, tx)
                 THEN IF Walk(d, t) = "done" THEN "err" ELSE Walk(d, t)
                 ELSE Transaction_verify(tx, Resolve(txs, tx)))

----------------------------------------------------------------------------
(* Building a transaction *)

\* the distinct transaction ids of the pairs, in the order of first insertion
RECURSIVE KeysOf(_, _)
KeysOf(pairs, seen) ==
    IF pairs = <<>> THEN seen
    ELSE KeysOf(Tail(pairs),
                IF InSeq(Head(pairs)[1], seen) THEN seen
                ELSE Append(seen, Head(pairs)[1]))

\* for (txid, outs) in valid_outputs, for out in outs: one input each.  A
\* HashMap yields its entries in an unspecified order; the entries are
\* taken here in the order of their insertion.
InputsOf(pairs, pub_key) ==
    With(KeysOf(pairs, <<>>),
         LAMBDA keys :
            With(Concat([k \in 1..Len(keys) |->
                            SelectSeq(pairs, LAMBDA q : q[1] = keys[k])]),
                 LAMBDA ordered :
                    [j \in 1..Len(ordered) |->
                        TXInput(ordered[j][1], ordered[j][2], <<>>, pub_key)]))

\* tx.id = tx.hash()
WithId(tx) == [tx EXCEPT !.id = hash(tx)]

NoTx == [id |-> <<>>, vin |-> <<>>, vout |-> <<>>]

\* new_utxo_transaction with the change output pushed when acc >= amount
new_utxo_transaction_change(sender, receiver, amount, d, t) ==
    IF Walk(d, t) # "done" THEN [status |-> Walk(d, t), tx |-> NoTx]
    ELSE With(find_spendable_outputs(d, t, base58_decode(sender), amount),
              LAMBDA found :
                 IF found.accumulated < amount THEN [status |-> "err", tx |-> NoTx]
                 ELSE sign_transaction(d, t,
                         WithId([id |-> <<>>,
                                 vin |-> InputsOf(found.unspent_outputs,
                                                  base58_decode(sender)),
                                 vout |-> <<TXOutput(amount, receiver)>>
                                    \o (IF found.accumulated >= amount
                                        THEN <<TXOutput(found.accumulated - amount,
                                                        sender)>>
                                        ELSE <<>>)]),
                         string_hex_address(sender)))

\* Transaction::new_utxo_transaction.  status: "ok", "err" (not enough
\* funds), "hang" (the scan of the chain does not end), or the status of a
\* failed sign
new_utxo_transaction(sender, receiver, amount, d, t) ==
    IF Walk(d, t) # "done" THEN [status |-> Walk(d, t), tx |-> NoTx]
    ELSE With(find_spendable_outputs(d, t, base58_decode(sender), amount),
              LAMBDA found :
                 IF found.accumulated < amount THEN [status |-> "err", tx |-> NoTx]
                 ELSE sign_transaction(d, t,
                         WithId([id |-> <<>>,
                                 vin |-> InputsOf(found.unspent_outputs,
                                                  base58_decode(sender)),
                                 vout |-> <<TXOutput(amount, receiver)>>
                                    \o (IF found.accumulated > amount
                                        THEN <<TXOutput(found.accumulated - amount,
                                                        sender)>>
                                        ELSE <<>>)]),
                         string_hex_address(sender)))

----------------------------------------------------------------------------
(* The Blockchain object *)

\* what the store does to the two writes of a call: all succeed, the
\* write of the block returns Err, the write of the tip returns Err, or
\* the process is killed between the two
Fails == {"none", "block", "tip", "crash"}

\* Blockchain::new.  status "panic": no chain and an empty address, or a
\* write that returns Err (unwrap); "crash": killed after the first write
Blockchain_new(d, s, address, time_stamp, fail) ==
    With(read(d, TipKey),
         LAMBDA last_hash :
            IF IsSome(last_hash)
            THEN [status |-> "ok", db |-> d, tip |-> Bytes(last_hash.some)]
            ELSE IF address = EmptyAddress
            THEN [status |-> "panic", db |-> d, tip |-> <<>>]
            ELSE With(Block_new(s, <<new_coinbase_tx(address)>>, <<>>, time_stamp),
                      LAMBDA genesis_block :
                         IF fail = "block"
                         THEN [status |-> "panic", db |-> d, tip |-> <<>>]
                         ELSE IF fail \in {"tip", "crash"}
                         THEN [status |-> IF fail = "tip" THEN "panic" ELSE "crash",
                               db |-> write(d, genesis_block.hash,
                                            serialize(genesis_block)),
                               tip |-> <<>>]
                         ELSE [status |-> "ok",
                               db |-> write(write(d, genesis_block.hash,
                                                  serialize(genesis_block)),
                                            TipKey, Raw(genesis_block.hash)),
                               tip |-> genesis_block.hash]))

\* the loop of mine_block over the transactions: what ends it
RECURSIVE verify_all(_, _, _, _)
verify_all(d, t, transactions, i) ==
    IF i > Len(transactions) THEN "true"
    ELSE With(verify_transaction(d, t, transactions[i]),
              LAMBDA v : IF v # "true" THEN v
                         ELSE verify_all(d, t, transactions, i + 1))

\* mine_block without its verification loop
mine_block_unverified(d, t, s, transactions, time_stamp, fail) ==
    With(Block_new(s, transactions, t, time_stamp),
         LAMBDA new_block :
            IF fail = "block"
            THEN [status |-> "failed", db |-> d, tip |-> t]
            ELSE IF fail \in {"tip", "crash"}
            THEN [status |-> IF fail = "tip" THEN "failed" ELSE "crash",
                  db |-> write(d, new_block.hash, serialize(new_block)),
                  tip |-> t]
            ELSE [status |-> "ok",
                  db |-> write(write(d, new_block.hash, serialize(new_block)),
                               TipKey, Raw(new_block.hash)),
                  tip |-> new_block.hash])

\* Blockchain::mine_block.  status "panic": a transaction is not verified;
\* "hang": a lookup does not return; "failed": a write returned Err and
\* the call returned early; "crash": killed after the first write
mine_block(d, t, s, transactions, time_stamp, fail) ==
    With(verify_all(d, t, transactions, 1),
         LAMBDA v :
            IF v # "true"
            THEN [status |-> IF v = "hang" THEN "hang" ELSE "panic",
                  db |-> d, tip |-> t]
            ELSE With(Block_new(s, transactions, t, time_stamp),
                      LAMBDA new_block :
                         IF fail = "block"
                         THEN [status |-> "failed", db |-> d, tip |-> t]
                         ELSE IF fail \in {"tip", "crash"}
                         THEN [status |-> IF fail = "tip" THEN "failed" ELSE "crash",
                               db |-> write(d, new_block.hash,
                                            serialize(new_block)),
                               tip |-> t]
                         ELSE [status |-> "ok",
                               db |-> write(write(d, new_block.hash,
                                                  serialize(new_block)),
                                            TipKey, Raw(new_block.hash)),
                               tip |-> new_block.hash]))

\* a store that any number of handles may open at once
BlockchainDb_new_shared(held) == "ok"

\* BlockchainDb::new: Database::open takes the lock of the store directory
\* and returns Err while another handle holds it
BlockchainDb_new(held) == IF held THEN "err" ELSE "ok"

\* Blockchain::new on a store that another Blockchain object may hold:
\* expect() panics on the Err of BlockchainDb::new, before any read
Blockchain_open(d, s, address, time_stamp, fail, held) ==
    IF BlockchainDb_new(held) = "err"
    THEN [status |-> "panic", db |-> d, tip |-> <<>>]
    ELSE Blockchain_new(d, s, address, time_stamp, fail)

----------------------------------------------------------------------------
(* The commands *)

\* a validation that only looks at the length of the decoded address
validate_address_length(address) ==
    address # EmptyAddress /\ Len(base58_decode(address)) > 4

\* utils::validate_address
validate_address(address) ==
    /\ address # EmptyAddress
    /\ With(base58_decode(address),
            LAMBDA decoded :
               /\ Len(decoded) > 4
               /\ Slice(decoded, Len(decoded) - 4, Len(decoded))
                     = checksum(Slice(decoded, 0, Len(decoded) - 4)))

\* the addresses typed on the command line
Typed == Addresses \cup {BadAddress}

\* what the environment gives one call that builds a block: the first
\* nonce whose digest is below the target (MaxNonce: none), that digest,
\* and what the store does to the writes
PowChoices(s) ==
    {[first |-> MaxNonce, good |-> <<>>, fail |-> f] : f \in Fails}
        \cup {[first |-> n, good |-> g, fail |-> f] :
                 n \in Nonces, g \in GoodDigests(s), f \in Fails}

\* the choice of a call that builds no block
NoChoice == [first |-> 0, good |-> <<>>, fail |-> "none"]

\* Blockchain::new creates the genesis block
NeedsGenesis(d, address) == ~IsSome(read(d, TipKey)) /\ address # EmptyAddress

\* the choices that matter to Blockchain::new
OpenChoices(d, s, address) ==
    IF NeedsGenesis(d, address) THEN PowChoices(s) ELSE {NoChoice}

\* the tip of the Blockchain object in use after a call: the call's own
\* when it returned, and when the process died in it, the tip the next
\* process reads from the store
TipAfter(bc) ==
    IF bc.status \in {"panic", "crash"}
    THEN With(read(bc.db, TipKey),
              LAMBDA last_hash : IF IsSome(last_hash) THEN Bytes(last_hash.some)
                                 ELSE <<>>)
    ELSE bc.tip

\* Blockchain::new with the digests of the genesis block's preimages fixed
Open(d, s, address, time_stamp, c) ==
    With(IF NeedsGenesis(d, address)
         THEN Extend(s, <<new_coinbase_tx(address)>>, <<>>, time_stamp,
                     c.first, c.good)
         ELSE s,
         LAMBDA s2 :
            With(Blockchain_new(d, s2, address, time_stamp, c.fail),
                 LAMBDA bc : [status |-> bc.status, db |-> bc.db,
                              tip |-> TipAfter(bc), sha |-> s2]))

\* mine_block with the digests of the new block's preimages fixed
Mine(d, t, s, transactions, time_stamp, c) ==
    With(IF verify_all(d, t, transactions, 1) = "true"
         THEN Extend(s, transactions, t, time_stamp, c.first, c.good)
         ELSE s,
         LAMBDA s2 :
            With(mine_block(d, t, s2, transactions, time_stamp, c.fail),
                 LAMBDA bc : [status |-> bc.status, db |-> bc.db,
                              tip |-> TipAfter(bc), sha |-> s2]))

\* what a command leaves behind: the store, the tip of the Blockchain
\* object in use, the digests known, and whether the command opened the
\* store (Blockchain::new) before it returned
Outcome(d, t, s, opened) == [db |-> d, tip |-> t, sha |-> s, opened |-> opened]

OutcomeOf(bc) == Outcome(bc.db, bc.tip, bc.sha, TRUE)

\* the ways Blockchain::new(address) can go on the store d
Opens(d, s, address, time_stamp) ==
    {Open(d, s, address, time_stamp, c) : c \in OpenChoices(d, s, address)}

\* CLI::create_blockchain: the outcomes of the command
CLI_create_blockchain(d, t, s, address) ==
    IF ~validate_address(address) THEN {Outcome(d, t, s, FALSE)}
    ELSE UNION {{OutcomeOf(bc) : bc \in Opens(d, s, address, time_stamp)} :
                   time_stamp \in Times}

\* CLI::create_blockchain
CreateBlockchain(address) ==
    /\ (validate_address(address) /\ NeedsGenesis(db, address))
          => Cardinality(Mined(sha)) < MaxBlocks
    /\ \E o \in CLI_create_blockchain(db, tip, sha, address) :
          /\ db' = o.db
          /\ tip' = o.tip
          /\ sha' = o.sha

\* CLI::get_balance, the key handed to find_utxo: the decoded address
\* without its first byte and its last 4 bytes
balance_key(address) ==
    With(base58_decode(address),
         LAMBDA pub_key_hash : Slice(pub_key_hash, 1, Len(pub_key_hash) - 4))

\* the balance CLI::get_balance prints for the Blockchain object (d, t)
get_balance(d, t, address) ==
    Sum(Values(find_utxo(d, t, balance_key(address))))

\* CLI::get_balance: Blockchain::new, then the scan
CLI_get_balance(d, t, s, address) ==
    IF ~validate_address(address) THEN {Outcome(d, t, s, FALSE)}
    ELSE UNION {{OutcomeOf(bc) :
                    bc \in {o \in Opens(d, s, address, time_stamp) :
                               o.status = "ok"
                                  => get_balance(o.db, o.tip, address) \in Int}} :
                   time_stamp \in Times}

\* CLI::get_balance
GetBalance(address) ==
    /\ (validate_address(address) /\ NeedsGenesis(db, address))
          => Cardinality(Mined(sha)) < MaxBlocks
    /\ \E o \in CLI_get_balance(db, tip, sha, address) :
          /\ db' = o.db
          /\ tip' = o.tip
          /\ sha' = o.sha

\* CLI::print_chain: Blockchain::new(""), which panics on a store without
\* a chain, then the walk from the tip, which only reads
CLI_print_chain(d, t, s) ==
    UNION {{OutcomeOf(bc) : bc \in Opens(d, s, EmptyAddress, time_stamp)} :
              time_stamp \in Times}

\* CLI::send after Blockchain::new returned bc: new_utxo_transaction, and
\* mine_block when it returned Ok
send_on(bc, from, to, amount, time_stamp) ==
    With(IF bc.status = "ok"
         THEN new_utxo_transaction(from, to, amount, bc.db, bc.tip)
         ELSE [status |-> bc.status, tx |-> NoTx],
         LAMBDA made :
            IF made.status # "ok" THEN {OutcomeOf(bc)}
            ELSE {OutcomeOf(Mine(bc.db, bc.tip, bc.sha, <<made.tx>>, later, c2)) :
                     c2 \in PowChoices(bc.sha),
                     later \in {x \in Times : x >= time_stamp}})

\* CLI::send: the outcomes of the command
CLI_send(d, t, s, from, to, amount) ==
    IF ~validate_address(from) \/ ~validate_address(to)
    THEN {Outcome(d, t, s, FALSE)}
    ELSE UNION {UNION {send_on(bc, from, to, amount, time_stamp) :
                          bc \in Opens(d, s, from, time_stamp)} :
                   time_stamp \in Times}

\* CLI::send
Send(from, to, amount) ==
    /\ (validate_address(from) /\ validate_address(to))
          => Cardinality(Mined(sha)) + (IF NeedsGenesis(db, from) THEN 1 ELSE 0)
                < MaxBlocks
    /\ \E o \in CLI_send(db, tip, sha, from, to, amount) :
          /\ db' = o.db
          /\ tip' = o.tip
          /\ sha' = o.sha

----------------------------------------------------------------------------
(* Calls of mine_block with transactions a caller built *)

\* the outputs of the chain a caller may reference: (transaction, index)
Refs(d, t) ==
    With(ChainTxs(d, t),
         LAMBDA txs : {r \in {txs[i] : i \in 1..Len(txs)} \X (0..1) :
                          /\ r[2] < Len(r[1].vout)
                          /\ r[1].vout[r[2] + 1].value > 0})

\* a transaction that spends output idx of prev_tx: `value` to `to`, the
\* rest back to the address of wallet w; inputs not signed yet
Unsigned(prev_tx, idx, w, to, value) ==
    WithId([id |-> <<>>,
            vin |-> <<TXInput(prev_tx.id, idx, <<>>, <<>>)>>,
            vout |-> <<TXOutput(value, to)>>
                        \o (IF prev_tx.vout[idx + 1].value > value
                            THEN <<TXOutput(prev_tx.vout[idx + 1].value - value,
                                            Address(w))>>
                            ELSE <<>>)])

\* the same transaction signed by the wallet software of w: the signature
\* of the message under w's secret key, and w's public key
WalletSigned(prev_tx, idx, w, to, value) ==
    [Unsigned(prev_tx, idx, w, to, value) EXCEPT
        !.vin[1].signature = utils_sign(PrivateKey(w), Message(prev_tx, idx)),
        !.vin[1].pub_key = get_public_key(PrivateKey(w))]

\* the values a caller spends from an output: 4, or all of it
SpendValues(prev_tx, idx) ==
    {v \in {4, prev_tx.vout[idx + 1].value} : v <= prev_tx.vout[idx + 1].value}

\* the lists of transactions handed to mine_block
Candidates(d, t) ==
    With(Refs(d, t),
         LAMBDA refs :
            \* one transaction signed by a wallet
            UNION {{<<WalletSigned(r[1], r[2], w, to, v)>> :
                       w \in Wallets, to \in Addresses,
                       v \in SpendValues(r[1], r[2])} : r \in refs}
            \cup
            \* one transaction signed by Transaction::sign
            {<<Transaction_sign(Unsigned(r[1], r[2], w, Address(w),
                                         r[1].vout[r[2] + 1].value),
                                PrivateKey(w), <<r[1]>>).tx>> :
                r \in refs, w \in Wallets}
            \cup
            \* two transactions that spend the same output
            {<<WalletSigned(r[1], r[2], w, Address(w), r[1].vout[r[2] + 1].value),
               WalletSigned(r[1], r[2], w, to, r[1].vout[r[2] + 1].value)>> :
                r \in refs, w \in Wallets, to \in Addresses}
            \cup
            \* one transaction signed by a wallet and one signed by
            \* Transaction::sign, in either order
            UNION {{<<WalletSigned(r[1], r[2], w, Address(w), r[1].vout[r[2] + 1].value),
                      Transaction_sign(Unsigned(r[1], r[2], w, Address(w),
                                                r[1].vout[r[2] + 1].value),
                                       PrivateKey(w), <<r[1]>>).tx>>,
                    <<Transaction_sign(Unsigned(r[1], r[2], w, Address(w),
                                                r[1].vout[r[2] + 1].value),
                                       PrivateKey(w), <<r[1]>>).tx,
                      WalletSigned(r[1], r[2], w, Address(w), r[1].vout[r[2] + 1].value)>>} :
                      r \in refs, w \in Wallets})

\* Blockchain::mine_block on the Blockchain object in use
MineBlock(transactions) ==
    /\ IsSome(read(db, TipKey))
    /\ Cardinality(Mined(sha)) < MaxBlocks
    /\ \E time_stamp \in Times,
          c \in IF verify_all(db, tip, transactions, 1) = "true"
                THEN PowChoices(sha) ELSE {NoChoice} :
          \E mined \in {Mine(db, tip, sha, transactions, time_stamp, c)} :
             /\ db' = mined.db
             /\ tip' = mined.tip
             /\ sha' = mined.sha

Init ==
    /\ db = EmptyDb
    /\ tip = <<>>
    /\ sha = [p \in {} |-> <<>>]

Next ==
    \/ \E address \in Typed : CreateBlockchain(address)
    \/ \E address \in Typed : GetBalance(address)
    \/ \E from \in Typed, to \in Typed, amount \in Amounts : Send(from, to, amount)
    \/ \E transactions \in Candidates(db, tip) : MineBlock(transactions)

Spec == Init /\ [][Next]_vars

----------------------------------------------------------------------------
(* Vocabulary of the properties *)

\* The two ways the code derives the key of an address: "balance" as
\* CLI::get_balance does before find_utxo, "lock" as TXOutput::lock does
\* when it stores the key in an output.
Derivations == {"balance", "lock"}

KeyOf(kind, address) ==
    IF kind = "balance" THEN balance_key(address) ELSE lock(address)

\* the chain ends: the walk from the tip reaches a missing key
Ends == Walk(db, tip) = "done"

\* the proof of work of every block of the chain succeeded
AllMined == \A b \in StoredBlocks(db) : validate(sha, b)

\* tx spends output 0 of prev_tx, paying `value` to `to` and the rest, if
\* any, to `from`
IsTransfer(tx, prev_tx, from, to, value) ==
    /\ Len(tx.vin) = 1
    /\ tx.vin[1].txid = prev_tx.id
    /\ tx.vin[1].vout = 0
    /\ tx.vout = <<TXOutput(value, to)>>
                    \o (IF prev_tx.vout[1].value > value
                        THEN <<TXOutput(prev_tx.vout[1].value - value, from)>>
                        ELSE <<>>)

\* the chain is the genesis block of `from` followed by one block whose
\* only transaction transfers `value` of the subsidy to `to`
TransferChain(from, to, value) ==
    /\ Ends
    /\ AllMined
    /\ With(Blocks(db, tip),
            LAMBDA blocks :
               /\ Len(blocks) = 2
               /\ blocks[2].transaction = <<new_coinbase_tx(from)>>
               /\ Len(blocks[1].transaction) = 1
               /\ IsTransfer(blocks[1].transaction[1], new_coinbase_tx(from),
                             from, to, value))

\* the (txid, vout) pairs of the inputs of the non-coinbase transactions
InputRefs(txs) ==
    Concat([i \in 1..Len(txs) |->
               IF is_coinbase(txs[i]) THEN <<>>
               ELSE [j \in 1..Len(txs[i].vin) |->
                        <<txs[i].vin[j].txid, txs[i].vin[j].vout>>]])

\* the outputs locked with the key that no input of txs references, in
\* chain order
UnreferencedOutputs(txs, pub_key_hash) ==
    Concat([i \in 1..Len(txs) |->
               With(SelectIdx(Len(txs[i].vout),
                       LAMBDA idx :
                          /\ is_locked_with_key(txs[i].vout[idx + 1], pub_key_hash)
                          /\ ~InSeq(<<txs[i].id, idx>>, InputRefs(txs))),
                    LAMBDA idxs : [j \in 1..Len(idxs) |->
                                     txs[i].vout[idxs[j] + 1]])])

Count(seq, x) == Cardinality({i \in 1..Len(seq) : seq[i] = x})

\* the two sequences hold the same elements the same number of times
SameBag(s1, s2) ==
    /\ Len(s1) = Len(s2)
    /\ \A i \in 1..Len(s1) : Count(s1, s1[i]) = Count(s2, s1[i])

----------------------------------------------------------------------------
(* Properties *)

\* C1: on the chain made of the genesis coinbase (subsidy 10) to A1 and one
\* mined block whose transaction sends 4 from A1 to A2, find_utxo(A1)
\* returns exactly the values [6], find_utxo(A2) exactly [4], and the walk
\* from the tip yields exactly 2 blocks, the last one the genesis block
\* with an empty prev_block_hash.  The key of an address is taken in one of
\* the ways the code derives it.
C1_Stated ==
    TransferChain(Address(1), Address(2), 4) =>
       /\ Len(Blocks(db, tip)) = 2
       /\ Blocks(db, tip)[2].prev_block_hash = <<>>
       /\ \E kind \in Derivations :
             /\ Values(find_utxo(db, tip, KeyOf(kind, Address(1)))) = <<6>>
             /\ Values(find_utxo(db, tip, KeyOf(kind, Address(2)))) = <<4>>

\* C2: on a freshly created chain whose genesis coinbase pays the subsidy to
\* address a, the values find_utxo returns for the key get_balance derives
\* from a sum to SUBSIDY, and for every other address they sum to 0.
C2_Stated ==
    \A a \in Addresses :
       (Ends /\ AllMined /\ ChainTxs(db, tip) = <<new_coinbase_tx(a)>>) =>
          /\ Sum(Values(find_utxo(db, tip, balance_key(a)))) = SUBSIDY
          /\ \A b \in Addresses \ {a} :
                Sum(Values(find_utxo(db, tip, balance_key(b)))) = 0

\* C3: after a transaction spending all of a's subsidy to b is mined,
\* find_utxo(a) sums to 0, find_utxo(b) sums to SUBSIDY, and the spent
\* output is in no map find_spendable_outputs(a, amount) returns.  The key
\* of an address is taken in one of the ways the code derives it.
C3_Stated ==
    \A a \in Addresses, b \in Addresses :
       (a # b /\ TransferChain(a, b, SUBSIDY)) =>
          \E kind \in Derivations :
             /\ Sum(Values(find_utxo(db, tip, KeyOf(kind, a)))) = 0
             /\ Sum(Values(find_utxo(db, tip, KeyOf(kind, b)))) = SUBSIDY
             /\ \A amount \in 1..SUBSIDY :
                   ~InSeq(<<new_coinbase_tx(a).id, 0>>,
                          find_spendable_outputs(db, tip, KeyOf(kind, a),
                                                 amount).unspent_outputs)

\* C4: on every chain that ends, for every key, find_utxo returns exactly
\* the outputs locked with the key that no input in the chain references,
\* each exactly once.
C4_Stated ==
    (Ends /\ AllMined) =>
       \A a \in Addresses, kind \in Derivations :
          SameBag(find_utxo(db, tip, KeyOf(kind, a)),
                  UnreferencedOutputs(ChainTxs(db, tip), KeyOf(kind, a)))

\* C5: in every reachable chain no pair (txid, output index) is referenced
\* by more than one input of the transactions reachable from the tip.
C5_Stated ==
    (Ends /\ AllMined) =>
       With(InputRefs(ChainTxs(db, tip)),
            LAMBDA refs : \A i \in 1..Len(refs), j \in 1..Len(refs) :
                             refs[i] = refs[j] => i = j)

\* the wallets whose address an output is locked to
OwnersOf(txout) == {w \in Wallets : lock(Address(w)) = txout.pub_key_hash}

\* C6: every input of a mined non-coinbase transaction references an output
\* of the chain, carries a public key that belongs to that output (its hash
\* is the output's pub_key_hash, or it is the public key of the wallet the
\* output is locked to), and a signature that verifies under that key.
C6_Stated ==
    (Ends /\ AllMined) =>
       With(ChainTxs(db, tip),
            LAMBDA txs :
               \A i \in 1..Len(txs) :
                  is_coinbase(txs[i]) \/
                  \A j \in 1..Len(txs[i].vin) :
                     With(<<txs[i].vin[j], first_with_id(txs, txs[i].vin[j].txid)>>,
                          LAMBDA p :
                             /\ IsSome(p[2])
                             /\ InRange(p[2].some, p[1].vout)
                             /\ \/ hash_public_key(p[1].pub_key)
                                      = p[2].some.vout[p[1].vout + 1].pub_key_hash
                                \/ \E w \in OwnersOf(p[2].some.vout[p[1].vout + 1]) :
                                      p[1].pub_key = get_public_key(PrivateKey(w))
                             /\ VerifyInput(p[1], p[2].some) = "true"))

\* C7: for every transaction that spends an output of the chain, with the
\* previous transaction available, Transaction::verify returns Ok(true) on
\* what Transaction::sign produced with the secret key of a wallet.
C7_Stated ==
    \A r \in Refs(db, tip), w \in Wallets :
       With(Transaction_sign(Unsigned(r[1], r[2], w, Address(w),
                                      r[1].vout[r[2] + 1].value),
                             PrivateKey(w), <<r[1]>>),
            LAMBDA signed :
               signed.status = "ok" =>
                  Transaction_verify(signed.tx, <<r[1]>>) = "true")

\* what an input's signature is changed to: bytes that are no DER
\* signature, the signature of another message, another key's signature
Forged(signature) ==
    {<<>>,
     utils_sign(signature[2], Sha256(signature[3])),
     utils_sign(Fill(32, 0), signature[3])}

\* C8: for a signed transaction that verifies, verify stops returning
\* Ok(true) when the signature of its input is changed, when the value of
\* the output the input references is changed, and when the pub_key_hash
\* of one of its own outputs is changed.
C8_Stated ==
    \A r \in Refs(db, tip), w \in Wallets, to \in Addresses :
       With(WalletSigned(r[1], r[2], w, to, r[1].vout[r[2] + 1].value),
            LAMBDA tx :
               Transaction_verify(tx, <<r[1]>>) = "true" =>
                  /\ \A sig \in Forged(tx.vin[1].signature) :
                        Transaction_verify([tx EXCEPT !.vin[1].signature = sig],
                                           <<r[1]>>) # "true"
                  /\ Transaction_verify(
                        tx, <<[r[1] EXCEPT !.vout[r[2] + 1].value = @ + 1]>>)
                        # "true"
                  /\ \A other \in Addresses \ {to} :
                        Transaction_verify(
                           [tx EXCEPT !.vout[1].pub_key_hash = lock(other)],
                           <<r[1]>>) # "true")

\* C9: every block in the store satisfies proof of work: its hash is the
\* digest of the preimage of its time stamp, transaction ids,
\* prev_block_hash and nonce, that digest is below the target, and
\* ProofOfWork::validate returns true for it.
C9_Stated ==
    \A b \in StoredBlocks(db) :
       /\ prepare_data(b, b.nonce) \in DOMAIN sha
       /\ b.hash = sha[prepare_data(b, b.nonce)]
       /\ BelowTarget(b.hash)
       /\ validate(sha, b)

\* run hashed every nonce of the block data and none is below the target
Exhausted(s, data) ==
    \A n \in Nonces :
       /\ <<data[1], data[2], data[3], TARGET_BITS, n>> \in DOMAIN s
       /\ ~BelowTarget(s[<<data[1], data[2], data[3], TARGET_BITS, n>>])

\* C10: a step of a Blockchain object with a chain in which the search for
\* a new block's proof of work exhausts the nonces persists no block and
\* changes neither the persisted tip nor the tip in memory.
C10_Stated ==
    [][(/\ IsSome(read(db, TipKey))
        /\ \E data \in Mined(sha') \ Mined(sha) : Exhausted(sha', data))
          => (db' = db /\ tip' = tip)]_vars

\* the persisted tip of the store d is absent or the hash of a block whose
\* bytes the store holds under that hash
NoDanglingTip(d) ==
    With(read(d, TipKey),
         LAMBDA r : IsSome(r) =>
            \E block \in StoredBlocks(d) :
               /\ block.hash = Bytes(r.some)
               /\ read(d, block.hash) = Some(serialize(block)))

\* the calls of mine_block the Blockchain object in use can take
MineCalls ==
    IF IsSome(read(db, TipKey)) /\ Cardinality(Mined(sha)) < MaxBlocks
    THEN Candidates(db, tip) \X Times \X PowChoices(sha)
    ELSE {}

\* C11: in every reachable state of the store, the states after a crash
\* between the two writes of Blockchain::new or mine_block included, the
\* persisted tip is absent or the hash of a block whose bytes are in the
\* store; and a crash between the two writes of mine_block leaves the
\* persisted tip as it was.
C11_Stated ==
    /\ NoDanglingTip(db)
    /\ \A call \in {x \in MineCalls : x[3].fail = "crash"} :
          read(Mine(db, tip, sha, call[1], call[2], call[3]).db, TipKey)
             = read(db, TipKey)

\* C12: when a store write of mine_block fails (the write of the block or
\* the write of the tip), the tip in memory is not advanced and the
\* persisted tip holds the value it had; and after mine_block returns,
\* failed or not, the tip of the Blockchain object is the persisted tip.
C12_Stated ==
    \A call \in MineCalls :
       With(Mine(db, tip, sha, call[1], call[2], call[3]),
            LAMBDA mined :
               /\ mined.status = "failed" =>
                     /\ mined.tip = tip
                     /\ read(mined.db, TipKey) = read(db, TipKey)
               /\ mined.status \in {"ok", "failed"} =>
                     read(mined.db, TipKey) = Some(Raw(mined.tip)))

\* the lists of Candidates with a transaction that is not verified
Rejected(d, t) ==
    {transactions \in Candidates(d, t) : verify_all(d, t, transactions, 1) # "true"}

\* C13: mine_block called with a list that holds a transaction failing
\* verification mines nothing, whatever the store would do to the writes:
\* the store is left as it was (no block written, the persisted tip
\* unchanged), the tip in memory is unchanged, and no transaction of the
\* list enters the chain.
C13_Holds ==
    IsSome(read(db, TipKey)) =>
       \A transactions \in Rejected(db, tip), time_stamp \in Times, fail \in Fails :
          With(mine_block(db, tip,
                          Extend(sha, transactions, tip, time_stamp, 0, NextGood(sha)),
                          transactions, time_stamp, fail),
               LAMBDA mined :
                  /\ mined.db = db
                  /\ mined.tip = tip
                  /\ \A i \in 1..Len(transactions) :
                        InSeq(transactions[i], ChainTxs(mined.db, mined.tip))
                           => InSeq(transactions[i], ChainTxs(db, tip)))

\* a chain exists and a list with an accepted and a rejected transaction
\* has been handed to mine_block, which has panicked
C13_Witness ==
    /\ IsSome(read(db, TipKey))
    /\ \E transactions \in Rejected(db, tip) :
          /\ Len(transactions) = 2
          /\ \E i \in 1..2 : verify_transaction(db, tip, transactions[i]) = "true"
          /\ mine_block(db, tip, sha, transactions, 0, "none").status = "panic"

\* the amount exceeds the total of the unspent outputs of the address in
\* the store (d, t), whichever way the key of the address is derived
ExceedsBalance(d, t, address, amount) ==
    \A kind \in Derivations :
       amount > Sum(Values(find_utxo(d, t, KeyOf(kind, address))))

\* C14: when the amount of a send exceeds the sender's total unspent
\* balance, find_spendable_outputs returns an accumulated value below the
\* amount, new_utxo_transaction fails with the insufficient-funds error,
\* and the send leaves the store, blocks and tip, as it was.
C14_Stated ==
    \A from \in Addresses, amount \in Amounts :
       ExceedsBalance(db, tip, from, amount) =>
          \A time_stamp \in Times, c \in OpenChoices(db, sha, from) :
             With(Open(db, sha, from, time_stamp, c),
                  LAMBDA bc :
                     /\ bc.db = db
                     /\ bc.status = "ok" =>
                           /\ find_spendable_outputs(bc.db, bc.tip,
                                 base58_decode(from), amount).accumulated < amount
                           /\ \A to \in Addresses :
                                 new_utxo_transaction(from, to, amount,
                                                      bc.db, bc.tip).status = "err")

\* the genesis blocks the store holds: the blocks with no previous block
GenesisBlocks(d) == {block \in StoredBlocks(d) : block.prev_block_hash = <<>>}

\* the store `after` is the store `before` with one more block, a genesis
\* block paying the address, and the tip naming it
GenesisWritten(before, after, address) ==
    \E block \in GenesisBlocks(after) :
       /\ block.transaction = <<new_coinbase_tx(address)>>
       /\ read(after, block.hash) = Some(serialize(block))
       /\ read(after, TipKey) = Some(Raw(block.hash))
       /\ StoredBlocks(after) = StoredBlocks(before) \cup {block}
       /\ Cardinality(StoredBlocks(after)) = Cardinality(StoredBlocks(before)) + 1

\* C15: Blockchain::new writes only when no tip is persisted and the
\* address is not empty, and then writes one genesis block and the tip
\* naming it; with a tip persisted it returns that tip and writes nothing,
\* whatever the address; with no tip and an empty address it fails and
\* writes nothing.  The store holds at most one genesis block.
C15_Stated ==
    /\ \A address \in Addresses \cup {EmptyAddress}, time_stamp \in Times :
          \A c \in {x \in OpenChoices(db, sha, address) : x.fail = "none"} :
             With(Blockchain_new(db,
                     IF NeedsGenesis(db, address)
                     THEN Extend(sha, <<new_coinbase_tx(address)>>, <<>>,
                                 time_stamp, c.first, c.good)
                     ELSE sha,
                     address, time_stamp, c.fail),
                  LAMBDA bc :
                     IF IsSome(read(db, TipKey))
                     THEN /\ bc.status = "ok"
                          /\ bc.db = db
                          /\ read(db, TipKey) = Some(Raw(bc.tip))
                     ELSE IF address = EmptyAddress
                     THEN bc.status = "panic" /\ bc.db = db
                     ELSE /\ bc.status = "ok"
                          /\ GenesisWritten(db, bc.db, address)
                          /\ read(bc.db, TipKey) = Some(Raw(bc.tip)))
    /\ Cardinality(GenesisBlocks(db)) <= 1

\* the blocks next() returns from the tip of (d, t) are linked by hash:
\* the first is the block the tip names, each block names the next one as
\* its previous block, no block is returned twice, and the last one, and
\* only the last one, has an empty prev_block_hash
Linked(d, t) ==
    With(Blocks(d, t),
         LAMBDA blocks :
            /\ Len(blocks) >= 1
            /\ blocks[1].hash = t
            /\ \A i \in 1..(Len(blocks) - 1) :
                  blocks[i].prev_block_hash = blocks[i + 1].hash
            /\ \A i \in 1..Len(blocks), j \in 1..Len(blocks) :
                  blocks[i] = blocks[j] => i = j
            /\ \A i \in 1..Len(blocks) :
                  (blocks[i].prev_block_hash = <<>>) <=> (i = Len(blocks)))

\* C16: on every reachable chain, calling BlockchainIterator::next from the
\* tip until it returns None terminates and returns every block of the
\* chain once, from the newest back to the genesis block, the only block
\* with an empty prev_block_hash; the chain has one block when it is
\* created (two when the command that creates it mines a block as well)
\* and one more after every mine_block that advances the tip.
C16_Stated ==
    [][/\ IsSome(read(db', TipKey)) =>
             /\ Walk(db', tip') = "done"
             /\ Linked(db', tip')
       /\ (~IsSome(read(db, TipKey)) /\ IsSome(read(db', TipKey))) =>
             Len(Blocks(db', tip')) \in 1..2
       /\ (IsSome(read(db, TipKey)) /\ read(db', TipKey) # read(db, TipKey)) =>
             Len(Blocks(db', tip')) = Len(Blocks(db, tip)) + 1]_vars

\* the store d holds, under the hash t, a block with that hash whose
\* previous block is `before`, and t is the persisted tip
Advanced(d, t, before) ==
    /\ t # before
    /\ read(d, TipKey) = Some(Raw(t))
    /\ \E block \in StoredBlocks(d) :
          /\ block.hash = t
          /\ block.prev_block_hash = before
          /\ read(d, t) = Some(serialize(block))

\* C17: after every mine_block that succeeds, the persisted tip and the
\* tip in memory are the hash of the new block, whose prev_block_hash is
\* the tip as it was before the call; and the persisted tip of an existing
\* chain changes in no other way.
C17_Stated ==
    /\ [](\A call \in MineCalls :
             With(Mine(db, tip, sha, call[1], call[2], call[3]),
                  LAMBDA mined :
                     mined.status = "ok" =>
                        /\ Advanced(mined.db, mined.tip, tip)
                        /\ \E block \in StoredBlocks(mined.db) :
                              block.hash = mined.tip /\ block.transaction = call[1]))
    /\ [][(IsSome(read(db, TipKey)) /\ read(db', TipKey) # read(db, TipKey))
             => Advanced(db', tip', Bytes(read(db, TipKey).some))]_vars

\* every block the store `before` holds under its hash is held by the
\* store `after` under the same hash, unchanged
Kept(before, after) ==
    \A block \in StoredBlocks(before) :
       read(before, block.hash) = Some(serialize(block))
          => read(after, block.hash) = Some(serialize(block))

\* C18: blocks are append-only: every block persisted before a step is
\* retrievable under its own hash, unchanged, after it; no operation
\* overwrites or deletes a persisted block, and the write of the tip alters
\* no block.
C18_Stated == [][Kept(db, db')]_vars

\* the values of the outputs the inputs of tx reference in txs
ReferencedValues(txs, tx) ==
    [j \in 1..Len(tx.vin) |->
        With(first_with_id(txs, tx.vin[j].txid),
             LAMBDA prev : IF IsSome(prev) /\ tx.vin[j].vout < Len(prev.some.vout)
                           THEN prev.some.vout[tx.vin[j].vout + 1].value
                           ELSE 0)]

\* the transaction tx is built from the selection `found` of
\* find_spendable_outputs as the claim C19 states
BuiltFrom(txs, tx, found, sender, receiver, amount) ==
    /\ Len(tx.vin) = Len(found.unspent_outputs)
    /\ \A k \in 1..Len(found.unspent_outputs) :
          Cardinality({j \in 1..Len(tx.vin) :
                          <<tx.vin[j].txid, tx.vin[j].vout>>
                             = found.unspent_outputs[k]}) = 1
    /\ Len(tx.vout) >= 1
    /\ tx.vout[1] = TXOutput(amount, receiver)
    /\ IF found.accumulated - amount > 0
       THEN /\ Len(tx.vout) = 2
            /\ tx.vout[2] = TXOutput(found.accumulated - amount, sender)
       ELSE Len(tx.vout) = 1
    /\ Sum(Values(tx.vout)) = Sum(ReferencedValues(txs, tx))

Searches(s) ==
    {c \in PowChoices(s) : c.fail = "none" /\ c.good \in {<<>>, NextGood(s)}}

\* the blocks Block::new constructs in the current state: the genesis
\* blocks Blockchain::new builds and the blocks mine_block builds on the tip
Constructed ==
    {Block_new(Extend(sha, <<new_coinbase_tx(address)>>, <<>>, time_stamp,
                      c.first, c.good),
               <<new_coinbase_tx(address)>>, <<>>, time_stamp) :
        address \in Addresses, time_stamp \in Times, c \in Searches(sha)}
    \cup
    {Block_new(Extend(sha, call[1], tip, call[2], call[3].first, call[3].good),
               call[1], tip, call[2]) :
        call \in Candidates(db, tip) \X Times \X Searches(sha)}

----------------------------------------------------------------------------
\* the wallets whose address a coinbase output of the chain is locked to
PaidWallets(d, t) ==
    With(ChainTxs(d, t),
         LAMBDA txs :
            {w \in Wallets : \E k \in 1..Len(txs) :
                /\ is_coinbase(txs[k])
                /\ \E i \in 1..Len(txs[k].vout) :
                      txs[k].vout[i].pub_key_hash = lock(Address(w))})

\* the address of every wallet as the wallet builds it, and what the two
\* decoders make of it
AddressOf == [w \in Wallets |-> Wallet_address(w)]
DecodedBs58 == [w \in Wallets |-> bs58_decode(AddressOf[w])]
DecodedBase58 == [w \in Wallets |-> decode(AddressOf[w])]
Validated ==
    [w \in Wallets |-> <<utils_validate_address(AddressOf[w]),
                          wallet_validate_address(AddressOf[w])>>]

\* C21: for every wallet, the address the wallet builds (base58 of the
\* version, the public key hash and the first 4 bytes of the double
\* SHA-256 of both) is a valid address: it decodes to the payload it was
\* built from, whose recomputed checksum equals its last 4 bytes, so that
\* both validate_address functions return true on it; the coinbase outputs
\* of the chain locked to the wallet carry bytes of that payload.
C21_Holds ==
    \A w \in Wallets :
       /\ w \in PaidWallets(db, tip)
             => lock(Address(w)) = Slice(DecodedBs58[w], 1, PubKeyHashLen)
       /\ Validated[w] = <<TRUE, TRUE>>
       /\ DecodedBs58[w] = base58_decode(Address(w))
       /\ DecodedBase58[w] = base58_decode(Address(w))
       /\ DecodedBs58[w] = calc_payload(hash_public_key(get_public_key(PrivateKey(w))))
       /\ validate_address(Address(w))

\* a chain whose genesis pays a wallet the address of which has a leading
\* zero byte in its payload and validates
C21_Witness ==
    \E w \in PaidWallets(db, tip) :
       /\ Validated[w][1] = TRUE
       /\ AddressOf[w][1] = 0
       /\ Len(DecodedBs58[w]) = 1 + PubKeyHashLen + CHECKSUM_LENGTH

----------------------------------------------------------------------------
\* the addresses that fail validation: one with a wrong checksum, and the
\* empty one
Invalid == {a \in Typed \cup {EmptyAddress} : ~validate_address(a)}

\* the only outcome of a command that returned before Blockchain::new
Untouched == {Outcome(db, tip, sha, FALSE)}

\* C22: get_balance, create_blockchain and send called with an address that
\* fails validation (for send: the sender or the receiver) return without
\* opening the store: nothing is read, nothing is written.
C22_Holds ==
    /\ BadAddress \in Invalid
    /\ \A address \in Invalid :
          /\ CLI_get_balance(db, tip, sha, address) = Untouched
          /\ CLI_create_blockchain(db, tip, sha, address) = Untouched
          /\ \A other \in Typed, amount \in Amounts :
                /\ CLI_send(db, tip, sha, address, other, amount) = Untouched
                /\ CLI_send(db, tip, sha, other, address, amount) = Untouched

\* a chain on which every command opens the store for a valid address and
\* none does for the mistyped one
C22_Witness ==
    /\ IsSome(read(db, TipKey))
    /\ CLI_get_balance(db, tip, sha, BadAddress) = Untouched
    /\ \E address \in Addresses :
          /\ validate_address(address)
          /\ \A o \in CLI_get_balance(db, tip, sha, address) : o.opened
          /\ CLI_send(db, tip, sha, address, BadAddress, 0) = Untouched

----------------------------------------------------------------------------
\* the keys find_spendable_outputs is asked about: the key TXOutput::lock
\* stores for a wallet's address, and the decoded address
\* new_utxo_transaction passes
SearchKeys ==
    {lock(address) : address \in Addresses}
       \cup {base58_decode(address) : address \in Addresses}

\* the positive amounts asked for
SearchAmounts == {4, SUBSIDY, SUBSIDY + 4, 2 * SUBSIDY}

\* the output the pair (txid, idx) names among txs, as an Option
OutputAt(txs, pair) ==
    With(first_with_id(txs, pair[1]),
         LAMBDA prev : IF IsSome(prev) /\ pair[2] < Len(prev.some.vout)
                       THEN Some(prev.some.vout[pair[2] + 1])
                       ELSE None)

\* the values of the outputs the pairs name, one per listing
ListedValues(txs, pairs) ==
    [k \in 1..Len(pairs) |->
        With(OutputAt(txs, pairs[k]),
             LAMBDA out : IF IsSome(out) THEN out.some.value ELSE 0)]

\* C23: find_spendable_outputs(pubKeyHash, amount) returns an accumulated
\* value equal to the sum of the values of the listed outputs, lists no
\* (txid, index) pair twice, lists only outputs locked to pubKeyHash, and
\* stops as soon as accumulated >= amount: without the last selected
\* output the accumulated value is below amount.
C23_Stated ==
    Ends =>
       \A pub_key_hash \in SearchKeys, amount \in SearchAmounts :
          With(<<ChainTxs(db, tip),
                 find_spendable_outputs(db, tip, pub_key_hash, amount)>>,
               LAMBDA r :
                  /\ r[2].accumulated
                        = Sum(ListedValues(r[1], r[2].unspent_outputs))
                  /\ \A j, k \in 1..Len(r[2].unspent_outputs) :
                        r[2].unspent_outputs[j] = r[2].unspent_outputs[k] => j = k
                  /\ \A k \in 1..Len(r[2].unspent_outputs) :
                        With(OutputAt(r[1], r[2].unspent_outputs[k]),
                             LAMBDA out :
                                /\ IsSome(out)
                                /\ is_locked_with_key(out.some, pub_key_hash))
                  /\ r[2].unspent_outputs # <<>>
                        => r[2].accumulated
                              - ListedValues(r[1], r[2].unspent_outputs)
                                   [Len(r[2].unspent_outputs)] < amount)

----------------------------------------------------------------------------
\* the values of a nonce: 0 up to MAT_NONCE, the largest one
AllNonces == 0..MaxNonce

\* SHA-256 on the data of the block with every value of the nonce: the
\* digest table s, and for the preimages not hashed before the digest
\* `good` at the nonce `first` and a digest not below the target at every
\* other nonce (first = MaxNonce + 1: at every nonce)
Hashed(s, block, first, good) ==
    With({prepare_data(block, n) : n \in AllNonces},
         LAMBDA e : [p \in DOMAIN s \cup e |->
                        IF p \in DOMAIN s THEN s[p]
                        ELSE IF p[5] = first THEN good ELSE BadDigest])

\* the blocks whose proof of work is searched in the current state: a
\* genesis block, or a block on the tip, with a coinbase transaction
Searched ==
    {Unmined(<<new_coinbase_tx(address)>>, prev_block_hash, time_stamp) :
        address \in Addresses, prev_block_hash \in {<<>>, tip},
        time_stamp \in Times}

\* C24: ProofOfWork::run returns the smallest nonce of the whole nonce
\* space whose hash is below the target, together with that hash, and the
\* empty sentinel (0, empty) only if no nonce up to and including the
\* largest one meets the target.
C24_Stated ==
    \A block \in Searched, first \in 0..(MaxNonce + 1) :
       With(Hashed(sha, block, first, NextGood(sha)),
            LAMBDA s :
               With(run(s, block),
                    LAMBDA pow :
                       IF pow[2] = <<>>
                       THEN \A n \in AllNonces :
                               ~BelowTarget(s[prepare_data(block, n)])
                       ELSE /\ pow[2] = s[prepare_data(block, pow[1])]
                            /\ BelowTarget(pow[2])
                            /\ \A n \in AllNonces :
                                  n < pow[1]
                                     => ~BelowTarget(s[prepare_data(block, n)])))

----------------------------------------------------------------------------
\* C25: every transaction stored in the chain, coinbase or signed spend,
\* has as its id the hash of its serialization with id cleared:
\* tx.id = tx.hash() for the transaction as persisted.
C25_Stated ==
    Ends =>
       With(ChainTxs(db, tip),
            LAMBDA txs : \A k \in 1..Len(txs) : txs[k].id = hash(txs[k]))

----------------------------------------------------------------------------
\* a transaction that is in no block: a coinbase nobody mined
Ghost(address) ==
    WithId([id |-> <<>>,
            vin |-> <<TXInput(<<>>, -1, <<"ghost">>, <<>>)>>,
            vout |-> <<TXOutput(SUBSIDY, address)>>])

\* transactions with an input whose previous transaction is missing,
\* unsigned and signed by a wallet
Dangling ==
    UNION {{Unsigned(Ghost(Address(w)), 0, w, to, 4),
            WalletSigned(Ghost(Address(w)), 0, w, to, 4)} :
              w \in Wallets, to \in Addresses}

\* every input of every non-coinbase transaction of txs names a
\* transaction of txs and one of its outputs
Referenced(txs) ==
    \A k \in 1..Len(txs) :
       ~is_coinbase(txs[k]) =>
          \A i \in 1..Len(txs[k].vin) :
             With(first_with_id(txs, txs[k].vin[i].txid),
                  LAMBDA prev : /\ IsSome(prev)
                                /\ InRange(prev.some, txs[k].vin[i].vout))

\* C26: in every reachable chain every input of every non-coinbase
\* transaction references a transaction in a block reachable from the tip
\* and an output index within its outputs; a transaction with an input
\* whose previous transaction is missing is never signed and never
\* verifies as true.
C26_Stated ==
    /\ Referenced(ChainTxs(db, tip))
    /\ \A tx \in Dangling, w \in Wallets :
          /\ Transaction_sign(tx, PrivateKey(w), <<>>).status = "exit"
          /\ Transaction_sign(tx, PrivateKey(w), <<>>).tx = tx
          /\ Transaction_verify(tx, <<>>) # "true"
          /\ Walk(db, tip) = "done" =>
                /\ sign_transaction(db, tip, tx, PrivateKey(w)).status = "exit"
                /\ verify_transaction(db, tip, tx) # "true"
                /\ verify_all(db, tip, <<tx>>, 1) # "true"

----------------------------------------------------------------------------
\* the keys the program hands to the store: the tip key, the empty hash
\* (the genesis block's prev_block_hash, and the hash of a block whose
\* proof of work was not found), the hashes of the stored blocks and the
\* hashes the next block may get
StoreKeys ==
    {TipKey, <<>>}
       \cup {block.hash : block \in StoredBlocks(db)}
       \cup GoodDigests(sha)

\* C27: the store has read-your-writes semantics over byte-string keys: for
\* any two distinct keys k1 and k2 (two block hashes, a block hash and the
\* tip key, a block hash and the empty hash), after write(k1, v1) and then
\* write(k2, v2), read(k1) returns v1; the read of a key never written
\* returns None.
C27_Stated ==
    \A k1, k2 \in StoreKeys :
       k1 # k2 =>
          /\ read(write(write(db, k1, Raw(k1)), k2, Raw(k2)), k1) = Some(Raw(k1))
          /\ read(write(EmptyDb, k1, Raw(k1)), k2) = None

----------------------------------------------------------------------------
\* the tip the store d holds, as an object that opens d reads it
PersistedTip(d) ==
    With(read(d, TipKey),
         LAMBDA last_hash : IF IsSome(last_hash) THEN Bytes(last_hash.some)
                            ELSE <<>>)

\* two Blockchain objects at the tip t of the store d, each mining a block
\* with a coinbase transaction: the first mines for address a, then the
\* second, whose tip is still t, mines for address b
TwoMiners(d, t, s, a, b) ==
    UNION {With(Mine(d, t, s, <<new_coinbase_tx(a)>>, MaxTime, c1),
                LAMBDA first :
                   {[first |-> first,
                     second |-> Mine(first.db, t, first.sha,
                                     <<new_coinbase_tx(b)>>, MaxTime, c2)] :
                       c2 \in Searches(first.sha)}) : c1 \in Searches(s)}

\* both calls returned, the block of the first is stored and is not on the
\* walk from the persisted tip, and the tip of the first object is not the
\* persisted tip
BlockLost(m) ==
    /\ m.first.status = "ok"
    /\ m.second.status = "ok"
    /\ m.first.tip # PersistedTip(m.second.db)
    /\ \E block \in StoredBlocks(m.second.db) :
          /\ block.hash = m.first.tip
          /\ ~InSeq(block, Blocks(m.second.db, PersistedTip(m.second.db)))

----------------------------------------------------------------------------
\* C29: get_balance and print_chain leave the persisted blocks and the
\* persisted tip exactly as they were before the call, also on a store in
\* which no chain has been created yet.
C29_Stated ==
    /\ \A o \in CLI_print_chain(db, tip, sha) : o.db = db
    /\ \A address \in Typed :
          (NeedsGenesis(db, address) => Cardinality(Mined(sha)) < MaxBlocks)
             => \A o \in CLI_get_balance(db, tip, sha, address) : o.db = db

----------------------------------------------------------------------------
\* the requested amounts of a send: those of the commands, and one above
\* the subsidy
SendAmounts == Amounts \cup {SUBSIDY + 2}

\* every output of txs with the (txid, vout) pair an input names it by
ChainOutputs(txs) ==
    Concat([i \in 1..Len(txs) |->
               [j \in 1..Len(txs[i].vout) |->
                   [ref |-> <<txs[i].id, j - 1>>,
                    value |-> txs[i].vout[j].value]]])

\* the sum of the values of the outputs of txs that no input references
Unreferenced(outs, refs) == SelectSeq(outs, LAMBDA out : ~InSeq(out.ref, refs))

UnreferencedValue(txs) ==
    With(Unreferenced(ChainOutputs(txs), InputRefs(txs)),
         LAMBDA outs : Sum([k \in 1..Len(outs) |-> outs[k].value]))

Coinbases(txs) == Cardinality({i \in 1..Len(txs) : is_coinbase(txs[i])})

Conserved(txs) == UnreferencedValue(txs) = SUBSIDY * Coinbases(txs)

Positive(txs) ==
    \A i \in 1..Len(txs) : \A j \in 1..Len(txs[i].vout) : txs[i].vout[j].value > 0

\* the chain of the outcome o of a command is walked to its end and
\* conserves value
ConservedAfter(o) ==
    (Walk(o.db, o.tip) = "done")
       => With(ChainTxs(o.db, o.tip),
               LAMBDA txs : Conserved(txs) /\ Positive(txs))

\* C30: a send with any requested amount, zero and negative included, on a
\* chain that conserves value leaves a chain in which the values of the
\* outputs no input references sum to SUBSIDY times the number of coinbase
\* transactions and every output has a value greater than 0.
C30_Stated ==
    (Ends /\ AllMined /\ ConservedAfter(Outcome(db, tip, sha, TRUE)))
       => \A from \in Addresses, to \in Addresses, amount \in SendAmounts :
             \A o \in CLI_send(db, tip, sha, from, to, amount) :
                ConservedAfter(o)

----------------------------------------------------------------------------
\* the byte sequences of at most MaxBytes bytes cut out of bytes, the empty
\* one among them
Windows(bytes) ==
    {Slice(bytes, r[1], r[2]) :
        r \in {p \in (0..Len(bytes)) \X (0..Len(bytes)) :
                  p[2] >= p[1] /\ p[2] - p[1] <= MaxBytes}}

\* the inputs of the round trip: the windows of the keys of the store,
\* which hold the empty sequence, runs of zero bytes, sequences with
\* leading zero bytes and sequences without
RoundTripInputs == UNION {Windows(key) : key \in StoreKeys}

AllZero(x) == \A i \in 1..Len(x) : x[i] = 0

\* C31: base58 round trip: for every byte sequence x, the empty sequence,
\* sequences with leading zero bytes and sequences of zero bytes only
\* included, base58::decode(base58::encode(x)) equals x.
C31_Stated == \A x \in RoundTripInputs : decode(encode(x)) = x

----------------------------------------------------------------------------
\* LittleEndian::read_i32 of a 4-byte buffer: the first byte is the lowest
read_i32(buffer) ==
    buffer[1] + 256 * buffer[2] + 65536 * buffer[3]
       + 16777216 * (IF buffer[4] >= 128 THEN buffer[4] - 256 ELSE buffer[4])

\* the last 4 bytes of the key; a shorter key followed by zero bytes, which
\* a little-endian read takes as the higher-order bytes
PaddedHigh(key) ==
    IF Len(key) >= 4 THEN Slice(key, Len(key) - 4, Len(key))
    ELSE key \o Fill(4 - Len(key), 0)

\* C32: from_u8 maps a key to the i32 read in little-endian order from its
\* last 4 bytes; a key shorter than 4 bytes is padded with zeros at the
\* higher-order bytes, so a one-byte key [b] maps to b; the key
\* [1, 2, 3, 4, 5] maps to 67305985.
C32_Stated ==
    /\ \A key \in StoreKeys \cup RoundTripInputs :
          /\ from_u8(key) = read_i32(PaddedHigh(key))
          /\ Len(key) = 1 => from_u8(key) = key[1]
    /\ from_u8(<<1, 2, 3, 4, 5>>) = 67305985

====
